---------------------------- MODULE Spec2Model ----------------------------
(***************************************************************************)
(* The n8n webhook relay of Open WebUI                                     *)
(* (backend/open_webui/routers/n8n_webhook.py, n8n_config.py).             *)
(*                                                                         *)
(* Text is modelled character by character: a Python str (or bytes) is a   *)
(* sequence of one-character strings, so that strip(), startswith(),       *)
(* json.dumps() and str() are computed rather than assumed.  The byte that *)
(* is not valid UTF-8 is the element "xFF".                                *)
(***************************************************************************)
EXTENDS Integers, Sequences, FiniteSets, TLC

(***************************************************************************)
(* String literals of the source.                                          *)
(***************************************************************************)
DATA_PREFIX == <<"d","a","t","a",":"," ">>
SSE_TERMINATOR == <<"\n","\n">>
DONE_FRAME == <<"d","a","t","a",":"," ","[","D","O","N","E","]","\n","\n">>
PLACEHOLDER_URL ==
    <<"Y","O","U","R","_","N","8","N","_","W","E","B","H","O","O","K","_","U",
      "R","L">>
PLACEHOLDER_TOKEN ==
    <<"Y","O","U","R","_","N","8","N","_","W","E","B","H","O","O","K","_","A",
      "U","T","H","_","T","O","K","E","N">>
N8N_MODEL_NAME == <<"n","8","n","-","a","g","e","n","t">>
BEARER == <<"B","e","a","r","e","r"," ">>
TEXT_EVENT_STREAM ==
    <<"t","e","x","t","/","e","v","e","n","t","-","s","t","r","e","a","m">>
APPLICATION_JSON ==
    <<"a","p","p","l","i","c","a","t","i","o","n","/","j","s","o","n">>
MSG_WEBHOOK_ERROR ==
    <<"n","8","n"," ","w","e","b","h","o","o","k"," ","e","r","r","o","r",":",
      " ">>
MSG_CONNECTION_ERROR ==
    <<"C","o","n","n","e","c","t","i","o","n"," ","e","r","r","o","r",":",
      " ">>
MSG_UNEXPECTED_ERROR ==
    <<"U","n","e","x","p","e","c","t","e","d"," ","e","r","r","o","r",":",
      " ">>
LOG_REQUEST_FROM ==
    <<"n","8","n"," ","c","h","a","t"," ","c","o","m","p","l","e","t","i","o",
      "n"," ","r","e","q","u","e","s","t"," ","f","r","o","m"," ","u","s","e",
      "r",":"," ">>
LOG_CONNECTION_ERROR ==
    <<"n","8","n"," ","w","e","b","h","o","o","k"," ","c","o","n","n","e","c",
      "t","i","o","n"," ","e","r","r","o","r",":"," ">>
LOG_UNEXPECTED_ERROR ==
    <<"n","8","n"," ","w","e","b","h","o","o","k"," ","u","n","e","x","p","e",
      "c","t","e","d"," ","e","r","r","o","r",":"," ">>
LOG_EMBEDDING_FROM ==
    <<"n","8","n"," ","e","m","b","e","d","d","i","n","g"," ",
      "r","e","q","u","e","s","t"," ","f","r","o","m"," ",
      "u","s","e","r",":"," ">>
LOG_DASH == <<" ","-"," ">>
K_error == <<"e","r","r","o","r">>
K_id == <<"i","d">>
K_object == <<"o","b","j","e","c","t">>
K_created == <<"c","r","e","a","t","e","d">>
K_model == <<"m","o","d","e","l">>
K_choices == <<"c","h","o","i","c","e","s">>
K_index == <<"i","n","d","e","x">>
K_message == <<"m","e","s","s","a","g","e">>
K_role == <<"r","o","l","e">>
K_content == <<"c","o","n","t","e","n","t">>
K_response == <<"r","e","s","p","o","n","s","e">>
K_finish_reason == <<"f","i","n","i","s","h","_","r","e","a","s","o","n">>
K_usage == <<"u","s","a","g","e">>
K_prompt_tokens == <<"p","r","o","m","p","t","_","t","o","k","e","n","s">>
K_completion_tokens ==
    <<"c","o","m","p","l","e","t","i","o","n","_","t","o","k","e","n","s">>
K_total_tokens == <<"t","o","t","a","l","_","t","o","k","e","n","s">>
V_chatcmpl == <<"c","h","a","t","c","m","p","l","-">>
V_chat_completion ==
    <<"c","h","a","t",".","c","o","m","p","l","e","t","i","o","n">>
V_assistant == <<"a","s","s","i","s","t","a","n","t">>
V_n8n_agent == <<"n","8","n","-","a","g","e","n","t">>
V_stop == <<"s","t","o","p">>
PY_None == <<"N","o","n","e">>
PY_True == <<"T","r","u","e">>
PY_False == <<"F","a","l","s","e">>
JS_null == <<"n","u","l","l">>
JS_true == <<"t","r","u","e">>
JS_false == <<"f","a","l","s","e">>
ATTR_ERR_TAIL ==
    <<" ","o","b","j","e","c","t"," ","h","a","s"," ","n","o"," ","a","t","t",
      "r","i","b","u","t","e"," ","'","g","e","t","'">>
TY_list == <<"l","i","s","t">>
TY_str == <<"s","t","r">>
TY_int == <<"i","n","t">>
TY_bool == <<"b","o","o","l">>
TY_NoneType == <<"N","o","n","e","T","y","p","e">>
UNICODE_ERR_HEAD ==
    <<"'","u","t","f","-","8","'"," ","c","o","d","e","c"," ","c","a","n","'",
      "t"," ","d","e","c","o","d","e"," ","b","y","t","e"," ","0","x","f","f",
      " ","i","n"," ","p","o","s","i","t","i","o","n"," ">>
UNICODE_ERR_TAIL ==
    <<":"," ","i","n","v","a","l","i","d"," ","s","t","a","r","t"," ","b","y",
      "t","e">>
TY_dict == <<"d","i","c","t">>
DIGITS == <<"0","1","2","3","4","5","6","7","8","9">>

(***************************************************************************)
(* Python str operations.                                                  *)
(***************************************************************************)
\* the characters str.strip() removes, among those of the model's alphabet
PyWhitespace == {" ", "\t", "\n", "\r"}

\* s.startswith(p)
StartsWith(s, p) ==
    /\ Len(s) >= Len(p)
    /\ \A i \in 1..Len(p) : s[i] = p[i]

\* sub in s
Contains(s, sub) ==
    \E i \in 0..(Len(s) - Len(sub)) :
        \A j \in 1..Len(sub) : s[i + j] = sub[j]

RECURSIVE LStrip(_)
LStrip(s) ==
    IF s # <<>> /\ Head(s) \in PyWhitespace THEN LStrip(Tail(s)) ELSE s

RECURSIVE RStrip(_)
RStrip(s) ==
    IF s # <<>> /\ s[Len(s)] \in PyWhitespace
    THEN RStrip(SubSeq(s, 1, Len(s) - 1))
    ELSE s

\* strip() taken for rstrip()
Strip_TrailingOnly(s) == RStrip(s)

\* s.strip()
Strip(s) == RStrip(LStrip(s))

\* str(n) for an int n >= 0
RECURSIVE IntStr(_)
IntStr(n) ==
    IF n < 10 THEN <<DIGITS[n + 1]>>
    ELSE IntStr(n \div 10) \o <<DIGITS[(n % 10) + 1]>>

\* bytes.decode('utf-8'): the text, or UnicodeDecodeError at the first byte
\* that is not UTF-8
Decodable(line) == \A i \in 1..Len(line) : line[i] # "xFF"

FirstBadByte(line) ==
    CHOOSE i \in 1..Len(line) :
        /\ line[i] = "xFF"
        /\ \A j \in 1..(i - 1) : line[j] # "xFF"

UnicodeDecodeErrorText(line) ==
    UNICODE_ERR_HEAD \o IntStr(FirstBadByte(line) - 1) \o UNICODE_ERR_TAIL

(***************************************************************************)
(* JSON values as Python holds them after response.json(): a tagged record *)
(* [t, v]; a dict is the sequence of its <<key, value>> pairs in insertion *)
(* order.                                                                  *)
(***************************************************************************)
JStr(s) == [t |-> "str", v |-> s]
JInt(n) == [t |-> "int", v |-> n]
JBool(b) == [t |-> "bool", v |-> b]
JNull == [t |-> "null", v |-> <<>>]
JArr(items) == [t |-> "arr", v |-> items]
JObj(pairs) == [t |-> "obj", v |-> pairs]

\* key in d
HasKey(d, k) == \E i \in 1..Len(d.v) : d.v[i][1] = k

\* d.get(k, default)
DictGet(d, k, default) ==
    IF HasKey(d, k)
    THEN d.v[CHOOSE i \in 1..Len(d.v) : d.v[i][1] = k][2]
    ELSE default

\* type(x).__name__
TypeName(x) ==
    CASE x.t = "str" -> TY_str
      [] x.t = "int" -> TY_int
      [] x.t = "bool" -> TY_bool
      [] x.t = "null" -> TY_NoneType
      [] x.t = "arr" -> TY_list
      [] x.t = "obj" -> TY_dict

\* json.dumps of a str: ensure_ascii escapes of the model's alphabet
JsonEscapeChar(c) ==
    CASE c = "\"" -> <<"\\", "\"">>
      [] c = "\\" -> <<"\\", "\\">>
      [] c = "\n" -> <<"\\", "n">>
      [] c = "\r" -> <<"\\", "r">>
      [] c = "\t" -> <<"\\", "t">>
      [] OTHER -> <<c>>

RECURSIVE JsonEscape(_)
JsonEscape(s) ==
    IF s = <<>> THEN <<>> ELSE JsonEscapeChar(Head(s)) \o JsonEscape(Tail(s))

\* json.dumps(x) with the default separators (", " and ": ")
RECURSIVE JsonDumps(_)
JsonDumps(x) ==
    LET RECURSIVE Items(_)
        Items(xs) ==
            IF xs = <<>> THEN <<>>
            ELSE JsonDumps(Head(xs))
                 \o (IF Len(xs) > 1 THEN <<",", " ">> ELSE <<>>)
                 \o Items(Tail(xs))
        RECURSIVE Pairs(_)
        Pairs(ps) ==
            IF ps = <<>> THEN <<>>
            ELSE <<"\"">> \o JsonEscape(Head(ps)[1]) \o <<"\"", ":", " ">>
                 \o JsonDumps(Head(ps)[2])
                 \o (IF Len(ps) > 1 THEN <<",", " ">> ELSE <<>>)
                 \o Pairs(Tail(ps))
    IN  CASE x.t = "str" -> <<"\"">> \o JsonEscape(x.v) \o <<"\"">>
          [] x.t = "int" -> IntStr(x.v)
          [] x.t = "bool" -> IF x.v THEN JS_true ELSE JS_false
          [] x.t = "null" -> JS_null
          [] x.t = "arr" -> <<"[">> \o Items(x.v) \o <<"]">>
          [] x.t = "obj" -> <<"{">> \o Pairs(x.v) \o <<"}">>

\* repr() of a str: single quotes unless it holds ' and no "
PyReprChar(c, q) ==
    CASE c = q -> <<"\\", q>>
      [] c = "\\" -> <<"\\", "\\">>
      [] c = "\n" -> <<"\\", "n">>
      [] c = "\r" -> <<"\\", "r">>
      [] c = "\t" -> <<"\\", "t">>
      [] OTHER -> <<c>>

PyReprStr(s) ==
    LET q == IF Contains(s, <<"'">>) /\ ~Contains(s, <<"\"">>)
             THEN "\"" ELSE "'"
        RECURSIVE Body(_)
        Body(cs) ==
            IF cs = <<>> THEN <<>>
            ELSE PyReprChar(Head(cs), q) \o Body(Tail(cs))
    IN  <<q>> \o Body(s) \o <<q>>

\* str(x) of a parsed JSON value (repr for a container's members)
RECURSIVE PyRepr(_)
PyRepr(x) ==
    LET RECURSIVE Items(_)
        Items(xs) ==
            IF xs = <<>> THEN <<>>
            ELSE PyRepr(Head(xs))
                 \o (IF Len(xs) > 1 THEN <<",", " ">> ELSE <<>>)
                 \o Items(Tail(xs))
        RECURSIVE Pairs(_)
        Pairs(ps) ==
            IF ps = <<>> THEN <<>>
            ELSE PyReprStr(Head(ps)[1]) \o <<":", " ">>
                 \o PyRepr(Head(ps)[2])
                 \o (IF Len(ps) > 1 THEN <<",", " ">> ELSE <<>>)
                 \o Pairs(Tail(ps))
    IN  CASE x.t = "str" -> PyReprStr(x.v)
          [] x.t = "int" -> IntStr(x.v)
          [] x.t = "bool" -> IF x.v THEN PY_True ELSE PY_False
          [] x.t = "null" -> PY_None
          [] x.t = "arr" -> <<"[">> \o Items(x.v) \o <<"]">>
          [] x.t = "obj" -> <<"{">> \o Pairs(x.v) \o <<"}">>

\* str(x)
PyStr(x) == IF x.t = "str" THEN x.v ELSE PyRepr(x)

\* Optional[str]: None, or a str
PyNone == [some |-> FALSE, s |-> <<>>]
Some(s) == [some |-> TRUE, s |-> s]
\* truth value of an Optional[str]
Truthy(o) == o.some /\ o.s # <<>>

(***************************************************************************)
(* Bounds and the inputs the environment draws from.                       *)
(***************************************************************************)
\* lines one streaming upstream body delivers at most
MaxLines == 2

\* calls of GET / in one run
MaxStatusCalls == 1

\* requests; `active` says which of them a specification runs
Reqs == {1, 2}
\* whose log lines: a chat-completion request, or 0 for the other calls
LogOwners == Reqs \cup {0}
\* calls of POST /embeddings in a run
MaxEmbeddingCalls == 1
\* length of the placeholder embedding
EMBEDDING_DIM == 1536

URL_N8N == <<"h","t","t","p",":","/","/","n","8","n","/","h","o","o","k">>
TOKEN_SECRET == <<"s","3","c","r","3","t">>
EMAIL_ALICE == <<"a","@","b",".","c">>
BODY_OVERLOADED == <<"o","v","e","r","l","o","a","d","e","d">>
CAUSE_REFUSED == <<"r","e","f","u","s","e","d">>
CAUSE_BAD_JSON ==
    <<"E","x","p","e","c","t","i","n","g"," ","v","a","l","u","e">>
V_hi == <<"h","i">>
V_yo == <<"y","o">>
K_other == <<"o","t","h","e","r">>
USER_TAG == <<"t","a","g","-","7">>

\* values of the environment variable N8N_WEBHOOK_URL (with its default)
WebhookUrls == {<<>>, PLACEHOLDER_URL, URL_N8N}

\* values of the environment variable N8N_WEBHOOK_AUTH_TOKEN
AuthTokens == {<<>>, PLACEHOLDER_TOKEN, TOKEN_SECRET}

\* N8N_MAX_RETRIES: the default, and retries switched off
RetryCounts == {3, 0}

\* the settings a process starts with: every URL with every token and
\* every retry count
SettingsSnapshots ==
    {[url |-> u, token |-> k, retries |-> n] :
         u \in WebhookUrls, k \in AuthTokens, n \in RetryCounts}

\* the verified caller get_verified_user supplies
Users == {[id |-> "u1", name |-> "Alice", email |-> EMAIL_ALICE,
           role |-> "user"]}

\* request bodies, after pydantic has filled the defaults in: both values
\* of the stream flag with no user tag, and one body that carries a tag
ChatRequest(st, tag) ==
    [model |-> N8N_MODEL_NAME,
     messages |-> <<[role |-> "system", content |-> "m1"],
                    [role |-> "user", content |-> "m2"]>>,
     stream |-> st,
     temperature |-> "0.7", max_tokens |-> 2048, top_p |-> "1.0",
     frequency_penalty |-> "0.0", presence_penalty |-> "0.0",
     user |-> tag]

ChatRequests ==
    {ChatRequest(st, PyNone) : st \in BOOLEAN}
    \cup {ChatRequest(FALSE, Some(USER_TAG))}

\* HTTP statuses the webhook answers with
Statuses == {200, 201, 401, 503}

\* bodies of a webhook error reply; the webhook has read the request, and
\* one that rejects the credential (401) may quote it
PlainErrorBodies == {<<>>, BODY_OVERLOADED, <<"a", "\"", "\n", "b">>}

ErrorBodies(post, status) ==
    PlainErrorBodies
    \cup (IF status = 401 /\ "Authorization" \in DOMAIN post.headers
          THEN {post.headers["Authorization"]} ELSE {})

\* every body some request can be answered with
AllErrorBodies == PlainErrorBodies \cup {BEARER \o t : t \in AuthTokens}

\* exceptions aiohttp raises, with str(e): a ClientError (connection
\* refused, payload error, wrong content type), or another Exception
\* (json.JSONDecodeError)
Raised ==
    {[cls |-> "ClientError", msg |-> CAUSE_REFUSED],
     [cls |-> "Exception", msg |-> CAUSE_BAD_JSON]}

\* what the total timeout of ClientTimeout(total=N8N_TIMEOUT) raises in the
\* task: asyncio.TimeoutError, no ClientError, whose str is empty
TimeoutError == [cls |-> "TimeoutError", msg |-> <<>>]

\* lines of a streaming body, as response.content yields them: bytes up to
\* and including the line feed, never empty
UpstreamLines ==
    {<<"d","a","t","a",":"," ","x","\n">>,
     <<"d","a","t","a",":"," ","\n">>,
     <<"d","a","t","a",":"," ","[","D","O","N","E","]","\n">>,
     <<" ","x","\n">>,
     <<"\n">>,
     <<" ","\n">>,
     <<"x","xFF","\n">>,
     <<"d","a","t","a",":"," ","a","\r","b","\n">>}

\* what response.json() returns
JsonResults ==
    {JObj(<< <<K_content, JStr(V_hi)>> >>),
     JObj(<< <<K_response, JStr(V_yo)>> >>),
     JObj(<< <<K_content, JStr(V_hi)>>, <<K_response, JStr(V_yo)>> >>),
     JObj(<< <<K_response, JStr(V_yo)>>, <<K_content, JStr(V_hi)>> >>),
     JObj(<< <<K_content, JNull>>, <<K_response, JStr(V_yo)>> >>),
     JObj(<< <<K_content, JStr(<<"a", "\"", "\n">>)>> >>),
     JObj(<< <<K_other, JStr(<<"x", "'">>)>>, <<<<"n">>, JInt(7)>> >>),
     JObj(<<>>),
     JArr(<<JStr(V_hi)>>),
     JStr(V_hi),
     JInt(7),
     JNull}

\* uuid.uuid4().hex[:8]
ID_A == <<"0","0","0","0","0","0","0","0">>
ID_B == <<"9","f","3","a","1","c","0","7">>
UuidHex8 == {ID_A, ID_B}

\* int(time.time())
Clock == {0, 1761696000}

(***************************************************************************)
(* State.                                                                  *)
(***************************************************************************)
VARIABLES
    N8N_WEBHOOK_URL,        \* setting, read once at import
    N8N_WEBHOOK_AUTH_TOKEN, \* setting, read once at import
    N8N_MAX_RETRIES,        \* setting, read once at import
    active,         \* the requests this run serves
    pc,             \* per request: where chat_completions and its generator are
    chat_request,   \* per request: the ChatRequest the endpoint received
    call,           \* per request: the arguments of stream_n8n_response
    http_status,    \* per request: status of the HTTP response (0: none yet)
    media_type,     \* per request: Content-Type of the HTTP response
    outbound,       \* per request: the POSTs sent to the webhook
    conn_open,      \* per request: the upstream connection is open
    response,       \* per request: what the webhook has delivered so far
    raised,         \* per request: the exception caught, if any
    frames,         \* per request: the chunks yielded to the client
    log,            \* per request: the log lines written (0: by other calls)
    status_reply,   \* replies of GET / so far
    embeddings_reply, \* replies of POST /embeddings so far
    abandoned       \* per request: the server left the generator suspended

vars ==
    <<N8N_WEBHOOK_URL, N8N_WEBHOOK_AUTH_TOKEN, N8N_MAX_RETRIES, active, pc,
      chat_request, call, http_status, media_type, outbound, conn_open,
      response, raised, frames, log, status_reply, embeddings_reply,
      abandoned>>

settings ==
    <<N8N_WEBHOOK_URL, N8N_WEBHOOK_AUTH_TOKEN, N8N_MAX_RETRIES, active>>

NoCall ==
    [webhook_url |-> <<>>, request_data |-> [stream |-> FALSE],
     auth_token |-> PyNone]

\* no request received yet
NoBody == [stream |-> FALSE, user |-> PyNone]

NoResponse ==
    [status |-> 0, has_text |-> FALSE, error_text |-> <<>>,
     lines |-> <<>>, relayed |-> <<>>,
     has_result |-> FALSE, result |-> JNull]

NotRaised == [cls |-> "none", msg |-> <<>>]

\* the generator is suspended inside `async with session.post(...)`
InFlight ==
    {"connecting", "error_text", "streaming", "buffering", "completion_sent",
     "http_error_sent", "done_sent"}

\* the generator is suspended at its last yield: the error frame of the
\* HTTP-error branch, `data: [DONE]`, or the frame of an except clause
AtLastYield == {"http_error_sent", "done_sent", "except_sent"}

\* the states in which the generator awaits the webhook
AwaitingUpstream == {"connecting", "error_text", "streaming", "buffering"}

\* the state once the module is imported, but for the settings
Fresh ==
    /\ active = {1}
    /\ pc = [r \in Reqs |-> "idle"]
    /\ chat_request = [r \in Reqs |-> NoBody]
    /\ call = [r \in Reqs |-> NoCall]
    /\ http_status = [r \in Reqs |-> 0]
    /\ media_type = [r \in Reqs |-> <<>>]
    /\ outbound = [r \in Reqs |-> <<>>]
    /\ conn_open = [r \in Reqs |-> FALSE]
    /\ response = [r \in Reqs |-> NoResponse]
    /\ raised = [r \in Reqs |-> NotRaised]
    /\ frames = [r \in Reqs |-> <<>>]
    /\ log = [r \in LogOwners |-> <<>>]
    /\ status_reply = <<>>
    /\ embeddings_reply = <<>>
    /\ abandoned = [r \in Reqs |-> FALSE]

Configure(s) ==
    /\ N8N_WEBHOOK_URL = s.url
    /\ N8N_WEBHOOK_AUTH_TOKEN = s.token
    /\ N8N_MAX_RETRIES = s.retries

Init == Fresh /\ \E s \in SettingsSnapshots : Configure(s)

\* a configured webhook with a token
LiveInit ==
    Fresh /\ Configure([url |-> URL_N8N, token |-> TOKEN_SECRET, retries |-> 3])

(***************************************************************************)
(* chat_completions and get_status.                                        *)
(***************************************************************************)
\* UrlNotConfigured without the test for an empty URL
UrlNotConfigured_PlaceholderOnly(webhook_url) ==
    webhook_url = PLACEHOLDER_URL

\* `not webhook_url or webhook_url == "YOUR_N8N_WEBHOOK_URL"`
UrlNotConfigured(webhook_url) ==
    webhook_url = <<>> \/ webhook_url = PLACEHOLDER_URL

\* the envelope chat_completions builds
N8nRequest(body, user) ==
    [model |-> body.model,
     messages |-> body.messages,
     stream |-> body.stream,
     temperature |-> body.temperature,
     max_tokens |-> body.max_tokens,
     top_p |-> body.top_p,
     frequency_penalty |-> body.frequency_penalty,
     presence_penalty |-> body.presence_penalty,
     user |-> [id |-> user.id, name |-> user.name, email |-> user.email,
               role |-> user.role]]

\* the third argument chat_completions passes to stream_n8n_response
AuthTokenArg(token) ==
    IF token # PLACEHOLDER_TOKEN THEN Some(token) ELSE PyNone

chat_completions(r, body, user) ==
    /\ r \in active
    /\ pc[r] = "idle"
    /\ chat_request' = [chat_request EXCEPT ![r] = body]
    /\ log' = [log EXCEPT ![r] = Append(@, LOG_REQUEST_FROM \o user.email)]
    /\ IF UrlNotConfigured(N8N_WEBHOOK_URL)
       THEN /\ http_status' = [http_status EXCEPT ![r] = 500]
            /\ media_type' = [media_type EXCEPT ![r] = APPLICATION_JSON]
            /\ pc' = [pc EXCEPT ![r] = "rejected"]
            /\ UNCHANGED call
       ELSE /\ http_status' = [http_status EXCEPT ![r] = 200]
            /\ media_type' = [media_type EXCEPT ![r] = TEXT_EVENT_STREAM]
            /\ call' = [call EXCEPT ![r] =
                   [webhook_url |-> N8N_WEBHOOK_URL,
                    request_data |-> N8nRequest(body, user),
                    auth_token |-> AuthTokenArg(N8N_WEBHOOK_AUTH_TOKEN)]]
            /\ pc' = [pc EXCEPT ![r] = "start"]
    /\ UNCHANGED <<settings, embeddings_reply, abandoned, outbound,
                   conn_open, response, raised, frames, status_reply>>

\* `configured = N8N_WEBHOOK_URL != "YOUR_N8N_WEBHOOK_URL"`
StatusConfigured(webhook_url) == webhook_url # PLACEHOLDER_URL

get_status ==
    /\ Len(status_reply) < MaxStatusCalls
    /\ status_reply' = Append(status_reply,
           [status |-> IF StatusConfigured(N8N_WEBHOOK_URL)
                       THEN "ready" ELSE "not_configured",
            configured |-> StatusConfigured(N8N_WEBHOOK_URL),
            model |-> V_n8n_agent,
            description |-> "n8n Webhook Integration for Open WebUI"])
    /\ UNCHANGED <<settings, embeddings_reply, abandoned, chat_request, pc,
                   call, http_status, media_type, outbound, conn_open,
                   response, raised, frames, log>>

\* the placeholder the endpoint returns: 1536 zeros as the one embedding
EmbeddingsReply ==
    [object |-> "list",
     data |-> <<[object |-> "embedding",
                 embedding |-> [value |-> "0.0", count |-> EMBEDDING_DIM],
                 index |-> 0]>>,
     model |-> V_n8n_agent,
     usage |-> [prompt_tokens |-> 0, total_tokens |-> 0]]

\* POST /embeddings: a log line and the placeholder, whatever the body
create_embeddings(user) ==
    /\ Len(embeddings_reply) < MaxEmbeddingCalls
    /\ log' = [log EXCEPT ![0] = Append(@, LOG_EMBEDDING_FROM \o user.email)]
    /\ embeddings_reply' = Append(embeddings_reply, EmbeddingsReply)
    /\ UNCHANGED <<settings, abandoned, chat_request, pc, call, http_status,
                   media_type, outbound, conn_open, response, raised, frames,
                   status_reply>>

(***************************************************************************)
(* stream_n8n_response.                                                    *)
(***************************************************************************)
\* the request headers
Headers(auth_token) ==
    IF Truthy(auth_token)
    THEN ("Content-Type" :> APPLICATION_JSON)
         @@ ("Authorization" :> (BEARER \o auth_token.s))
    ELSE ("Content-Type" :> APPLICATION_JSON)

\* one SSE frame holding json.dumps(x)
SseJson(x) == DATA_PREFIX \o JsonDumps(x) \o SSE_TERMINATOR

\* the frame of {'error': text}
ErrorFrame(text) == SseJson(JObj(<< <<K_error, JStr(text)>> >>))

\* Branch with the stream flag tested before the status
Branch_StreamFirst(status, request_data) ==
    IF request_data.stream THEN "streaming"
    ELSE IF status # 200 THEN "error_text"
    ELSE "buffering"

\* Branch with every 2xx status taken as success
Branch_Any2xx(status, request_data) ==
    IF status \notin 200..299 THEN "error_text"
    ELSE IF request_data.stream THEN "streaming"
    ELSE "buffering"

\* which branch a reply takes: `response.status != 200`, then
\* `request_data.get("stream", False)`
Branch(status, request_data) ==
    IF status # 200 THEN "error_text"
    ELSE IF request_data.stream THEN "streaming"
    ELSE "buffering"

\* line.decode('utf-8') of a line that is UTF-8: the bytes of the model's
\* alphabet are ASCII, each decoding to the character of the same code
Decode(line) == [i \in 1..Len(line) |-> line[i]]

\* RelayLine that wraps whatever is left of a line, nothing included
RelayLine_WrapsBlank(line) ==
    IF line = <<>> THEN <<>>
    ELSE LET decoded_line == Strip(Decode(line))
         IN  IF StartsWith(decoded_line, DATA_PREFIX)
             THEN <<decoded_line \o SSE_TERMINATOR>>
             ELSE <<DATA_PREFIX \o decoded_line \o SSE_TERMINATOR>>

\* the body of `async for line in response.content`: the chunks one line
\* yields (none or one); the line is decodable
RelayLine(line) ==
    IF line = <<>> THEN <<>>
    ELSE LET decoded_line == Strip(Decode(line))
         IN  IF StartsWith(decoded_line, DATA_PREFIX)
             THEN <<decoded_line \o SSE_TERMINATOR>>
             ELSE IF decoded_line # <<>>
             THEN <<DATA_PREFIX \o decoded_line \o SSE_TERMINATOR>>
             ELSE <<>>

\* CompletionContent with the two keys looked up in the other order
CompletionContent_ResponseFirst(result) ==
    DictGet(result, K_response,
            DictGet(result, K_content, JStr(PyStr(result))))

\* `result.get("content", result.get("response", str(result)))`
CompletionContent(result) ==
    DictGet(result, K_content,
            DictGet(result, K_response, JStr(PyStr(result))))

\* formatted_response, whose message content is `content`
FormattedResponse(request_data, content, id, created) ==
    JObj(<< <<K_id, JStr(V_chatcmpl \o id)>>,
            <<K_object, JStr(V_chat_completion)>>,
            <<K_created, JInt(created)>>,
            <<K_model, JStr(request_data.model)>>,
            <<K_choices, JArr(<<
                JObj(<< <<K_index, JInt(0)>>,
                        <<K_message,
                          JObj(<< <<K_role, JStr(V_assistant)>>,
                                  <<K_content, content>>
                               >>)>>,
                        <<K_finish_reason, JStr(V_stop)>> >>) >>)>>,
            <<K_usage,
              JObj(<< <<K_prompt_tokens, JInt(0)>>,
                      <<K_completion_tokens, JInt(0)>>,
                      <<K_total_tokens, JInt(0)>> >>)>> >>)

\* the log line and the frame of an except clause
ExceptLog(e) ==
    IF e.cls = "ClientError" THEN LOG_CONNECTION_ERROR \o e.msg
    ELSE LOG_UNEXPECTED_ERROR \o e.msg

\* ExceptFrame yielding the bare message, with no SSE framing
ExceptFrame_Bare(e) ==
    IF e.cls = "ClientError" THEN MSG_CONNECTION_ERROR \o e.msg
    ELSE MSG_UNEXPECTED_ERROR \o e.msg

\* ExceptFrame that calls every failure a connection error
ExceptFrame_AlwaysConnection(e) ==
    ErrorFrame(MSG_CONNECTION_ERROR \o e.msg)

ExceptFrame(e) ==
    IF e.cls = "ClientError" THEN ErrorFrame(MSG_CONNECTION_ERROR \o e.msg)
    ELSE ErrorFrame(MSG_UNEXPECTED_ERROR \o e.msg)

\* Except with only the `except aiohttp.ClientError` clause: any other
\* exception leaves the generator
Except_ClientErrorOnly(r, e) ==
    /\ raised' = [raised EXCEPT ![r] = e]
    /\ conn_open' = [conn_open EXCEPT ![r] = FALSE]
    /\ IF e.cls = "ClientError"
       THEN /\ log' = [log EXCEPT ![r] = Append(@, ExceptLog(e))]
            /\ frames' = [frames EXCEPT ![r] = Append(@, ExceptFrame(e))]
            /\ pc' = [pc EXCEPT ![r] = "except_sent"]
       ELSE /\ pc' = [pc EXCEPT ![r] = "escaped"]
            /\ UNCHANGED <<log, frames>>

\* Except that sends the request again while N8N_MAX_RETRIES allows
Except_Retries(r, e) ==
    /\ raised' = [raised EXCEPT ![r] = e]
    /\ log' = [log EXCEPT ![r] = Append(@, ExceptLog(e))]
    /\ conn_open' = [conn_open EXCEPT ![r] = FALSE]
    /\ IF Len(outbound[r]) <= N8N_MAX_RETRIES
       THEN /\ pc' = [pc EXCEPT ![r] = "start"]
            /\ UNCHANGED frames
       ELSE /\ frames' = [frames EXCEPT ![r] = Append(@, ExceptFrame(e))]
            /\ pc' = [pc EXCEPT ![r] = "except_sent"]

\* an exception raised inside the try block: the `async with` blocks close
\* the connection, the matching except clause logs and yields its frame
Except(r, e) ==
    /\ raised' = [raised EXCEPT ![r] = e]
    /\ log' = [log EXCEPT ![r] = Append(@, ExceptLog(e))]
    /\ frames' = [frames EXCEPT ![r] = Append(@, ExceptFrame(e))]
    /\ conn_open' = [conn_open EXCEPT ![r] = FALSE]
    /\ pc' = [pc EXCEPT ![r] = "except_sent"]

\* the generator starts: the headers are built and session.post is sent
Post(r) ==
    /\ pc[r] = "start"
    /\ outbound' = [outbound EXCEPT ![r] =
           Append(@, [url |-> call[r].webhook_url,
                      headers |-> Headers(call[r].auth_token),
                      json |-> call[r].request_data,
                      ssl |-> FALSE])]
    /\ conn_open' = [conn_open EXCEPT ![r] = TRUE]
    /\ pc' = [pc EXCEPT ![r] = "connecting"]
    /\ UNCHANGED <<settings, embeddings_reply, abandoned, chat_request, call,
                   http_status, media_type, response, raised, frames, log,
                   status_reply>>

\* the webhook's status line and headers arrive
Respond(r, status) ==
    /\ pc[r] = "connecting"
    /\ response' = [response EXCEPT ![r].status = status]
    /\ pc' = [pc EXCEPT ![r] = Branch(status, call[r].request_data)]
    /\ UNCHANGED <<settings, embeddings_reply, abandoned, chat_request, call,
                   http_status, media_type, outbound, conn_open, raised,
                   frames, log, status_reply>>

\* `error_text = await response.text()`, the log line and the yield of the
\* error frame
ReadErrorText(r, error_text) ==
    /\ pc[r] = "error_text"
    /\ error_text \in ErrorBodies(outbound[r][Len(outbound[r])],
                                  response[r].status)
    /\ response' = [response EXCEPT ![r].has_text = TRUE,
                                    ![r].error_text = error_text]
    /\ log' = [log EXCEPT ![r] =
           Append(@, MSG_WEBHOOK_ERROR \o IntStr(response[r].status)
                     \o LOG_DASH \o error_text)]
    /\ frames' = [frames EXCEPT ![r] =
           Append(@, ErrorFrame(MSG_WEBHOOK_ERROR \o error_text))]
    /\ pc' = [pc EXCEPT ![r] = "http_error_sent"]
    /\ UNCHANGED <<settings, embeddings_reply, abandoned, chat_request, call,
                   http_status, media_type, outbound, conn_open, raised,
                   status_reply>>

\* ReadLine that relays a line into every stream that is being relayed
ReadLine_SharedBuffer(r, line) ==
    /\ pc[r] = "streaming"
    /\ ~abandoned[r]
    /\ Len(response[r].lines) < MaxLines
    /\ IF Decodable(line)
       THEN /\ response' = [response EXCEPT
                   ![r].lines = Append(@, line),
                   ![r].relayed = Append(@, RelayLine(line))]
            /\ frames' = [q \in Reqs |->
                   IF pc[q] = "streaming"
                   THEN frames[q] \o RelayLine(line) ELSE frames[q]]
            /\ UNCHANGED <<conn_open, raised, log, pc>>
       ELSE /\ response' = [response EXCEPT ![r].lines = Append(@, line)]
            /\ Except(r, [cls |-> "Exception",
                          msg |-> UnicodeDecodeErrorText(line)])
    /\ UNCHANGED <<settings, embeddings_reply, abandoned, chat_request, call,
                   http_status, media_type, outbound, status_reply>>

\* one turn of `async for line in response.content`
ReadLine(r, line) ==
    /\ pc[r] = "streaming"
    /\ ~abandoned[r]
    /\ Len(response[r].lines) < MaxLines
    /\ IF Decodable(line)
       THEN /\ response' = [response EXCEPT
                   ![r].lines = Append(@, line),
                   ![r].relayed = Append(@, RelayLine(line))]
            /\ frames' = [frames EXCEPT ![r] = @ \o RelayLine(line)]
            /\ UNCHANGED <<conn_open, raised, log, pc>>
       ELSE /\ response' = [response EXCEPT ![r].lines = Append(@, line)]
            /\ Except(r, [cls |-> "Exception",
                          msg |-> UnicodeDecodeErrorText(line)])
    /\ UNCHANGED <<settings, embeddings_reply, abandoned, chat_request, call,
                   http_status, media_type, outbound, status_reply>>

\* EndOfBody closing the relay with a [DONE] frame of its own
EndOfBody_AddsDone(r) ==
    /\ pc[r] = "streaming"
    /\ ~abandoned[r]
    /\ frames' = [frames EXCEPT ![r] = Append(@, DONE_FRAME)]
    /\ conn_open' = [conn_open EXCEPT ![r] = FALSE]
    /\ pc' = [pc EXCEPT ![r] = "closed"]
    /\ UNCHANGED <<settings, embeddings_reply, abandoned, chat_request, call,
                   http_status, media_type, outbound, response, raised, log,
                   status_reply>>

\* the webhook closes the body: the loop and the generator end
EndOfBody(r) ==
    /\ pc[r] = "streaming"
    /\ ~abandoned[r]
    /\ conn_open' = [conn_open EXCEPT ![r] = FALSE]
    /\ pc' = [pc EXCEPT ![r] = "closed"]
    /\ UNCHANGED <<settings, embeddings_reply, abandoned, chat_request, call,
                   http_status, media_type, outbound, response, raised,
                   frames, log, status_reply>>

\* `result = await response.json()` and the completion frame; a result
\* that is no dict has no .get (AttributeError)
ReadJson(r, result, id, created) ==
    /\ pc[r] = "buffering"
    /\ response' = [response EXCEPT ![r].has_result = TRUE,
                                    ![r].result = result]
    /\ IF result.t = "obj"
       THEN /\ frames' = [frames EXCEPT ![r] = Append(@,
                   SseJson(FormattedResponse(call[r].request_data,
                                             CompletionContent(result),
                                             id, created)))]
            /\ pc' = [pc EXCEPT ![r] = "completion_sent"]
            /\ UNCHANGED <<conn_open, raised, log>>
       ELSE Except(r, [cls |-> "Exception",
                       msg |-> <<"'">> \o TypeName(result) \o <<"'">>
                               \o ATTR_ERR_TAIL])
    /\ UNCHANGED <<settings, embeddings_reply, abandoned, chat_request, call,
                   http_status, media_type, outbound, status_reply>>

\* YieldDone with the sentinel forgotten
YieldDone_NoSentinel(r) ==
    /\ pc[r] = "completion_sent"
    /\ ~abandoned[r]
    /\ conn_open' = [conn_open EXCEPT ![r] = FALSE]
    /\ pc' = [pc EXCEPT ![r] = "closed"]
    /\ UNCHANGED <<settings, embeddings_reply, abandoned, chat_request, call,
                   http_status, media_type, outbound, response, raised,
                   frames, log, status_reply>>

\* YieldDone that starts the generator over instead of ending it
YieldDone_StartsOver(r) ==
    /\ pc[r] = "completion_sent"
    /\ ~abandoned[r]
    /\ frames' = [frames EXCEPT ![r] = Append(@, DONE_FRAME)]
    /\ conn_open' = [conn_open EXCEPT ![r] = FALSE]
    /\ pc' = [pc EXCEPT ![r] = "start"]
    /\ UNCHANGED <<settings, embeddings_reply, abandoned, chat_request, call,
                   http_status, media_type, outbound, response, raised, log,
                   status_reply>>

\* the server asks for the chunk after the completion frame:
\* `yield "data: [DONE]\n\n"`
YieldDone(r) ==
    /\ pc[r] = "completion_sent"
    /\ ~abandoned[r]
    /\ frames' = [frames EXCEPT ![r] = Append(@, DONE_FRAME)]
    /\ pc' = [pc EXCEPT ![r] = "done_sent"]
    /\ UNCHANGED <<settings, embeddings_reply, abandoned, chat_request, call,
                   http_status, media_type, outbound, conn_open, response,
                   raised, log, status_reply>>

\* the server asks for the chunk after the last one: `return` (line 101),
\* or the end of the function, leaves the `async with` blocks, which close
\* the connection, and the generator ends
Finish(r) ==
    /\ pc[r] \in AtLastYield
    /\ ~abandoned[r]
    /\ conn_open' = [conn_open EXCEPT ![r] = FALSE]
    /\ pc' = [pc EXCEPT ![r] = "closed"]
    /\ UNCHANGED <<settings, embeddings_reply, abandoned, chat_request, call,
                   http_status, media_type, outbound, response, raised, frames,
                   log, status_reply>>

\* aiohttp raises while connecting or while reading the reply
Raise(r, e) ==
    /\ pc[r] \in AwaitingUpstream
    /\ ~abandoned[r]
    /\ Except(r, e)
    /\ UNCHANGED <<settings, embeddings_reply, abandoned, chat_request, call,
                   http_status, media_type, outbound, response,
                   status_reply>>

\* Timeout ending the stream with no frame
Timeout_Silent(r) ==
    /\ pc[r] \in AwaitingUpstream
    /\ ~abandoned[r]
    /\ raised' = [raised EXCEPT ![r] = TimeoutError]
    /\ conn_open' = [conn_open EXCEPT ![r] = FALSE]
    /\ pc' = [pc EXCEPT ![r] = "closed"]
    /\ UNCHANGED <<settings, embeddings_reply, abandoned, chat_request, call,
                   http_status, media_type, outbound, response, frames, log,
                   status_reply>>

\* the total timeout expires while the generator awaits the webhook (or had
\* expired when it comes back to await it): the await raises TimeoutError
Timeout(r) ==
    /\ pc[r] \in AwaitingUpstream
    /\ ~abandoned[r]
    /\ Except(r, TimeoutError)
    /\ UNCHANGED <<settings, embeddings_reply, abandoned, chat_request, call,
                   http_status, media_type, outbound, response,
                   status_reply>>

\* the client goes away and the generator is stopped.  Where it awaits the
\* webhook the task's CancelledError is raised in it; where it is suspended
\* at a yield it is closed with aclose() (GeneratorExit).  Neither is an
\* Exception, so no except clause runs, and the `async with` blocks close
\* the connection on the way out
Cancel(r) ==
    /\ pc[r] \in {"start", "except_sent"} \cup InFlight
    /\ ~abandoned[r]
    /\ conn_open' = [conn_open EXCEPT ![r] = FALSE]
    /\ pc' = [pc EXCEPT ![r] = "cancelled"]
    /\ UNCHANGED <<settings, embeddings_reply, abandoned, chat_request, call,
                   http_status, media_type, outbound, response, raised, frames,
                   log, status_reply>>

\* the generator is suspended at a yield, its chunk handed to the server:
\* after the completion frame, after its last frame, or after a relayed
\* line
AtYield(r) ==
    \/ pc[r] \in {"completion_sent"} \cup AtLastYield
    \/ /\ pc[r] = "streaming"
       /\ response[r].lines # <<>>
       /\ RelayLine(response[r].lines[Len(response[r].lines)]) # <<>>

\* the client goes away while the server sends a chunk: the server stops
\* iterating and ends the response, and nothing closes the generator.  It
\* stays suspended at its yield, inside its `async with` blocks
Abandon(r) ==
    /\ AtYield(r)
    /\ ~abandoned[r]
    /\ abandoned' = [abandoned EXCEPT ![r] = TRUE]
    /\ UNCHANGED <<settings, embeddings_reply, chat_request, pc, call,
                   http_status, media_type, outbound, conn_open, response,
                   raised, frames, log, status_reply>>

\* the collector reaches the abandoned generator and the event loop's
\* finalizer closes it: GeneratorExit at the yield, and the `async with`
\* blocks close the connection
Finalize(r) ==
    /\ abandoned[r]
    /\ pc[r] # "cancelled"
    /\ conn_open' = [conn_open EXCEPT ![r] = FALSE]
    /\ pc' = [pc EXCEPT ![r] = "cancelled"]
    /\ UNCHANGED <<settings, embeddings_reply, abandoned, chat_request, call,
                   http_status, media_type, outbound, response, raised, frames,
                   log, status_reply>>

Next ==
    \/ \E r \in Reqs, body \in ChatRequests, user \in Users :
           chat_completions(r, body, user)
    \/ get_status
    \/ \E user \in Users : create_embeddings(user)
    \/ \E r \in Reqs : Post(r)
    \/ \E r \in Reqs, status \in Statuses : Respond(r, status)
    \/ \E r \in Reqs, error_text \in AllErrorBodies :
           ReadErrorText(r, error_text)
    \/ \E r \in Reqs, line \in UpstreamLines : ReadLine(r, line)
    \/ \E r \in Reqs : EndOfBody(r)
    \/ \E r \in Reqs, result \in JsonResults, id \in UuidHex8,
          created \in Clock : ReadJson(r, result, id, created)
    \/ \E r \in Reqs : YieldDone(r)
    \/ \E r \in Reqs : Finish(r)
    \/ \E r \in Reqs, e \in Raised : Raise(r, e)
    \/ \E r \in Reqs : Timeout(r)
    \/ \E r \in Reqs : Cancel(r)
    \/ \E r \in Reqs : Abandon(r)
    \/ \E r \in Reqs : Finalize(r)

Spec == Init /\ [][Next]_vars

\* two requests served at once by the event loop: any of them may take the
\* next step.  Their inputs are drawn from smaller sets
ConcInit ==
    /\ Configure([url |-> URL_N8N, token |-> TOKEN_SECRET, retries |-> 3])
    /\ active = Reqs
    /\ pc = [r \in Reqs |-> "idle"]
    /\ chat_request = [r \in Reqs |-> NoBody]
    /\ call = [r \in Reqs |-> NoCall]
    /\ http_status = [r \in Reqs |-> 0]
    /\ media_type = [r \in Reqs |-> <<>>]
    /\ outbound = [r \in Reqs |-> <<>>]
    /\ conn_open = [r \in Reqs |-> FALSE]
    /\ response = [r \in Reqs |-> NoResponse]
    /\ raised = [r \in Reqs |-> NotRaised]
    /\ frames = [r \in Reqs |-> <<>>]
    /\ log = [r \in LogOwners |-> <<>>]
    /\ status_reply = <<>>
    /\ embeddings_reply = <<>>
    /\ abandoned = [r \in Reqs |-> FALSE]

ConcStatuses == {200, 503}
ConcRequests == {ChatRequest(st, PyNone) : st \in BOOLEAN}
ConcLines == {<<"d","a","t","a",":"," ","x","\n">>}
ConcResults ==
    {JObj(<< <<K_content, JStr(V_hi)>> >>),
     JObj(<< <<K_response, JStr(V_yo)>> >>)}

ConcNext ==
    \/ \E r \in Reqs, body \in ConcRequests, user \in Users :
           chat_completions(r, body, user)
    \/ get_status
    \/ \E user \in Users : create_embeddings(user)
    \/ \E r \in Reqs : Post(r)
    \/ \E r \in Reqs, status \in ConcStatuses : Respond(r, status)
    \/ \E r \in Reqs : ReadErrorText(r, BODY_OVERLOADED)
    \/ \E r \in Reqs, line \in ConcLines : ReadLine(r, line)
    \/ \E r \in Reqs : EndOfBody(r)
    \/ \E r \in Reqs, result \in ConcResults :
           ReadJson(r, result, ID_B, 0)
    \/ \E r \in Reqs : YieldDone(r)
    \/ \E r \in Reqs : Finish(r)
    \/ \E r \in Reqs : Raise(r, [cls |-> "ClientError", msg |-> CAUSE_REFUSED])
    \/ \E r \in Reqs : Timeout(r)
    \/ \E r \in Reqs : Cancel(r)
    \/ \E r \in Reqs : Abandon(r)
    \/ \E r \in Reqs : Finalize(r)

ConcSpec == ConcInit /\ [][ConcNext]_vars

\* the timer of ClientTimeout(total=N8N_TIMEOUT) runs on the event loop: a
\* generator that goes on awaiting the webhook meets its deadline.  The
\* server goes on iterating the generator while the client is there: it
\* starts it, and resumes it after each chunk.  A generator left behind is
\* closed by the event loop's finalizer once the collector reaches it, at
\* the latest when the loop shuts down.  The inputs are drawn from the
\* smaller sets
ServedNext ==
    \/ \E r \in Reqs, body \in ConcRequests, user \in Users :
           chat_completions(r, body, user)
    \/ get_status
    \/ \E user \in Users : create_embeddings(user)
    \/ \E r \in Reqs : Post(r)
    \/ \E r \in Reqs, status \in ConcStatuses : Respond(r, status)
    \/ \E r \in Reqs : ReadErrorText(r, BODY_OVERLOADED)
    \/ \E r \in Reqs, line \in ConcLines : ReadLine(r, line)
    \/ \E r \in Reqs : EndOfBody(r)
    \/ \E r \in Reqs, result \in ConcResults :
           ReadJson(r, result, ID_B, 0)
    \/ \E r \in Reqs : YieldDone(r)
    \/ \E r \in Reqs : Finish(r)
    \/ \E r \in Reqs, e \in Raised : Raise(r, e)
    \/ \E r \in Reqs : Timeout(r)
    \/ \E r \in Reqs : Cancel(r)
    \/ \E r \in Reqs : Abandon(r)
    \/ \E r \in Reqs : Finalize(r)

ServedSpec ==
    /\ LiveInit
    /\ [][ServedNext]_vars
    /\ \A r \in Reqs :
           /\ WF_vars(Timeout(r))
           /\ WF_vars(Post(r))
           /\ WF_vars(YieldDone(r))
           /\ WF_vars(Finish(r))
           /\ WF_vars(Finalize(r))

(***************************************************************************)
(* Vocabulary of the properties.                                           *)
(***************************************************************************)
ERROR_FRAME_HEAD ==
    <<"d","a","t","a",":"," ","{","\"","e","r","r","o","r","\"",":"," ","\"">>
ERROR_FRAME_TAIL == <<"\"","}","\n","\n">>
DONE_BARE == <<"[","D","O","N","E","]">>
DATA_DONE == <<"d","a","t","a",":"," ","[","D","O","N","E","]">>
FRAME_OVERLOADED ==
    <<"d","a","t","a",":"," ","{","\"","e","r","r","o","r","\"",":"," ","\"",
      "n","8","n"," ","w","e","b","h","o","o","k"," ","e","r","r","o","r",":",
      " ","o","v","e","r","l","o","a","d","e","d","\"","}","\n","\n">>

EndsWith(s, p) ==
    /\ Len(s) >= Len(p)
    /\ \A i \in 1..Len(p) : s[Len(s) - Len(p) + i] = p[i]

\* a frame `data: {"error": "..."}` followed by a blank line
IsErrorFrame(f) ==
    /\ StartsWith(f, ERROR_FRAME_HEAD)
    /\ EndsWith(f, ERROR_FRAME_TAIL)
    /\ Len(f) >= Len(ERROR_FRAME_HEAD) + Len(ERROR_FRAME_TAIL)

LastFrame(r) == frames[r][Len(frames[r])]

\* the generator of request r ran to its end (the client did not leave)
Ended(r) == pc[r] = "closed"

\* request r is a pass-through relay that the webhook ended without failure
PassedThrough(r) ==
    /\ call[r].request_data.stream
    /\ response[r].status = 200
    /\ raised[r].cls = "none"

\* the last line of `lines` that is not blank is the [DONE] sentinel, with
\* or without the `data: ` prefix
LastLineIsDone(lines) ==
    \E i \in 1..Len(lines) :
        /\ Strip(lines[i]) \in {DATA_DONE, DONE_BARE}
        /\ \A j \in (i + 1)..Len(lines) : Strip(lines[j]) = <<>>

(***************************************************************************)
(* C1 as stated: every stream that ends has a last frame, and that frame   *)
(* is `data: [DONE]` or an error frame.  Refuted: a streaming reply that   *)
(* the webhook closes without sending [DONE] ends on its last relayed line *)
(* or on no frame at all.                                                  *)
(***************************************************************************)
C1_EndsWithDoneOrError ==
    \A r \in Reqs :
        Ended(r) =>
            /\ frames[r] # <<>>
            /\ LastFrame(r) = DONE_FRAME \/ IsErrorFrame(LastFrame(r))

(***************************************************************************)
(* C1 amended: every stream that ends has `data: [DONE]` or an error frame *)
(* as its last frame, except a pass-through relay (stream flag true,       *)
(* status 200) that the webhook ends without a failure: that one ends with *)
(* `data: [DONE]` exactly when the webhook's last non-blank line was the   *)
(* [DONE] sentinel.                                                        *)
(***************************************************************************)
C1_EndsWithDoneOrErrorUnlessPassThrough ==
    \A r \in Reqs :
        Ended(r) =>
            IF PassedThrough(r)
            THEN (frames[r] # <<>> /\ LastFrame(r) = DONE_FRAME)
                     <=> LastLineIsDone(response[r].lines)
            ELSE /\ frames[r] # <<>>
                 /\ LastFrame(r) = DONE_FRAME \/ IsErrorFrame(LastFrame(r))

\* a relay that failed after a frame had been relayed, ending on the error
C1_Witness ==
    \E r \in Reqs :
        /\ Ended(r)
        /\ call[r].request_data.stream
        /\ raised[r].cls # "none"
        /\ Len(frames[r]) = 2
        /\ IsErrorFrame(LastFrame(r))

(***************************************************************************)
(* C2: a webhook reply whose status is not 200 (so every non-success       *)
(* status) gives, for both values of the stream flag, a stream of exactly  *)
(* one frame, an error frame; when the reply's body was read it is         *)
(* {"error": "n8n webhook error: <body>"}.                                 *)
(***************************************************************************)
C2_HttpErrorIsOneErrorFrame ==
    \A r \in Reqs :
        (Ended(r) /\ response[r].status \notin {0, 200}) =>
            /\ Len(frames[r]) = 1
            /\ IsErrorFrame(frames[r][1])
            /\ response[r].has_text =>
                   frames[r][1] =
                       ERROR_FRAME_HEAD \o MSG_WEBHOOK_ERROR
                       \o JsonEscape(response[r].error_text)
                       \o ERROR_FRAME_TAIL

\* HTTP 503 "overloaded" answered to a streaming request
C2_Witness ==
    \E r \in Reqs :
        /\ Ended(r)
        /\ call[r].request_data.stream
        /\ response[r].status = 503
        /\ response[r].error_text = BODY_OVERLOADED
        /\ frames[r] = <<FRAME_OVERLOADED>>

(***************************************************************************)
(* C3 as stated: every 2xx reply is treated as a body and never takes the  *)
(* HTTP-error branch.  Refuted by status 201.                              *)
(***************************************************************************)
C3_Any2xxIsBody ==
    \A r \in Reqs :
        response[r].status \in 200..299 =>
            /\ pc[r] # "error_text"
            /\ ~response[r].has_text
            /\ \A i \in 1..Len(log[r]) :
                   ~StartsWith(log[r][i], MSG_WEBHOOK_ERROR)

(***************************************************************************)
(* C3 amended: a reply with status 200 is treated as a body (streamed if   *)
(* the stream flag is true, buffered if false) and never takes the         *)
(* HTTP-error branch; every other status, the other 2xx included, takes    *)
(* the HTTP-error branch and is never read as a body.                      *)
(***************************************************************************)
C3_Only200IsBody ==
    \A r \in Reqs :
        response[r].status # 0 =>
            IF response[r].status = 200
            THEN /\ pc[r] # "error_text"
                 /\ ~response[r].has_text
                 /\ \A i \in 1..Len(log[r]) :
                        ~StartsWith(log[r][i], MSG_WEBHOOK_ERROR)
                 /\ pc[r] = "streaming" => call[r].request_data.stream
                 /\ pc[r] \in {"buffering", "completion_sent", "done_sent"} =>
                        ~call[r].request_data.stream
                 /\ response[r].lines # <<>> => call[r].request_data.stream
                 /\ response[r].has_result => ~call[r].request_data.stream
            ELSE /\ pc[r] \in {"error_text", "http_error_sent", "except_sent",
                             "closed", "cancelled"}
                 /\ response[r].lines = <<>>
                 /\ ~response[r].has_result

\* status 201 answered with an error frame
C3_Witness ==
    \E r \in Reqs :
        /\ Ended(r)
        /\ response[r].status = 201
        /\ response[r].has_text
        /\ Len(frames[r]) = 1
        /\ StartsWith(frames[r][1], ERROR_FRAME_HEAD \o MSG_WEBHOOK_ERROR)

COMPLETION_FRAME_HEAD ==
    <<"d","a","t","a",":"," ","{","\"","i","d","\"",":"," ","\"","c","h","a",
      "t","c","m","p","l","-">>
COMPLETION_OBJECT ==
    <<"\"","o","b","j","e","c","t","\"",":"," ","\"","c","h","a","t",".","c",
      "o","m","p","l","e","t","i","o","n","\"">>
COMPLETION_FRAME_TAIL == <<"}","\n","\n">>
CONTENT_HI ==
    <<"\"","m","e","s","s","a","g","e","\"",":"," ","{","\"","r","o","l","e",
      "\"",":"," ","\"","a","s","s","i","s","t","a","n","t","\"",","," ","\"",
      "c","o","n","t","e","n","t","\"",":"," ","\"","h","i","\"","}">>
DOUBLE_PREFIX == <<"d","a","t","a",":"," ","d","a","t","a",":">>
FRAME_X == <<"d","a","t","a",":"," ","x","\n","\n">>

\* a frame holding one chat.completion object
IsCompletionFrame(f) ==
    /\ StartsWith(f, COMPLETION_FRAME_HEAD)
    /\ Contains(f, COMPLETION_OBJECT)
    /\ EndsWith(f, COMPLETION_FRAME_TAIL)

\* the webhook answered request r's buffered call with a JSON object
BufferedObject(r) ==
    /\ ~call[r].request_data.stream
    /\ response[r].status = 200
    /\ response[r].has_result
    /\ response[r].result.t = "obj"

(***************************************************************************)
(* C4: a request with stream=false that the webhook answers with status    *)
(* 200 and a JSON object gets exactly two frames, one chat.completion      *)
(* frame and then `data: [DONE]`, and the stream ends there.               *)
(***************************************************************************)
C4_BufferedIsCompletionThenDone ==
    \A r \in Reqs :
        BufferedObject(r) =>
            /\ pc[r] \in {"completion_sent", "done_sent", "closed", "cancelled"}
            /\ Len(frames[r]) \in {1, 2}
            /\ IsCompletionFrame(frames[r][1])
            /\ ~IsErrorFrame(frames[r][1])
            /\ raised[r].cls = "none"
            /\ (pc[r] = "done_sent" \/ Ended(r)) =>
                   /\ Len(frames[r]) = 2
                   /\ frames[r][2] = DONE_FRAME

\* {"content": "hi"} answered to a request with stream=false
C4_Witness ==
    \E r \in Reqs :
        /\ Ended(r)
        /\ BufferedObject(r)
        /\ response[r].result = JObj(<< <<K_content, JStr(V_hi)>> >>)
        /\ Len(frames[r]) = 2
        /\ Contains(frames[r][1], CONTENT_HI)
        /\ frames[r][2] = DONE_FRAME

\* the value the reply object d holds under key k
ValueOf(d, k) ==
    LET i == CHOOSE j \in 1..Len(d.v) : d.v[j][1] = k IN d.v[i][2]

\* the message content C5 names for a reply object
ClaimedContent(result) ==
    IF \E i \in 1..Len(result.v) : result.v[i][1] = K_content
    THEN ValueOf(result, K_content)
    ELSE IF \E i \in 1..Len(result.v) : result.v[i][1] = K_response
    THEN ValueOf(result, K_response)
    ELSE JStr(PyStr(result))

(***************************************************************************)
(* C5: the message content of the synthesized completion is the reply's    *)
(* `content` value if that key exists, else its `response` value if that   *)
(* key exists, else the stringified reply; `content` has priority.         *)
(***************************************************************************)
C5_ContentFallbackChain ==
    \A r \in Reqs :
        BufferedObject(r) =>
            \E id \in UuidHex8, created \in Clock :
                frames[r][1] =
                    SseJson(FormattedResponse(
                        call[r].request_data,
                        ClaimedContent(response[r].result), id, created))

\* a reply holding `response` before `content`: the content is "hi"
C5_Witness ==
    \E r \in Reqs :
        /\ BufferedObject(r)
        /\ response[r].result =
               JObj(<< <<K_response, JStr(V_yo)>>,
                       <<K_content, JStr(V_hi)>> >>)
        /\ Contains(frames[r][1], CONTENT_HI)

\* the chunk C6 speaks of: the line without the whitespace around it, its
\* `data: ` prefix kept whole
PrefixedChunk(line) ==
    LET t == LStrip(line) IN
    DATA_PREFIX \o RStrip(SubSeq(t, Len(DATA_PREFIX) + 1, Len(t)))

(***************************************************************************)
(* C6 as stated: a streamed line that begins with `data: `, its payload    *)
(* empty or blank included, is relayed as that chunk and a blank-line      *)
(* terminator, and never as a frame beginning `data: data:`.  The code     *)
(* fails it on the line `data: ` with an empty payload.                    *)
(***************************************************************************)
C6_PrefixedLineRelayedOnce ==
    \A r \in Reqs :
        \A i \in 1..Len(response[r].relayed) :
            LET line == response[r].lines[i]
                out == response[r].relayed[i]
            IN  StartsWith(LStrip(line), DATA_PREFIX) =>
                    /\ out = <<PrefixedChunk(line) \o SSE_TERMINATOR>>
                    /\ ~StartsWith(out[1], DOUBLE_PREFIX)

\* the text of a line between its first and its last non-blank character
Trimmed(line) ==
    LET solid == {i \in 1..Len(line) : line[i] \notin PyWhitespace}
        first == CHOOSE i \in solid : \A j \in solid : i <= j
        last == CHOOSE i \in solid : \A j \in solid : j <= i
    IN  IF solid = {} THEN <<>> ELSE SubSeq(line, first, last)

(***************************************************************************)
(* C7 as stated: a streamed line that is not blank and does not begin with *)
(* `data: ` is relayed as `data: `, the line with its trailing whitespace  *)
(* removed, and a blank-line terminator.  Refuted by a line that begins    *)
(* with whitespace.                                                        *)
(***************************************************************************)
C7_UnprefixedLineWrappedRStripped ==
    \A r \in Reqs :
        \A i \in 1..Len(response[r].relayed) :
            LET line == response[r].lines[i]
                out == response[r].relayed[i]
            IN  (Trimmed(line) # <<>> /\ ~StartsWith(line, DATA_PREFIX)) =>
                    out = <<DATA_PREFIX \o RStrip(line) \o SSE_TERMINATOR>>

(***************************************************************************)
(* C7 amended: a streamed line whose text, with the whitespace at both     *)
(* ends removed, is not empty and does not begin with `data: ` is relayed  *)
(* as `data: `, that text, and a blank-line terminator.                    *)
(***************************************************************************)
C7_UnprefixedLineWrappedStripped ==
    \A r \in Reqs :
        \A i \in 1..Len(response[r].relayed) :
            LET line == response[r].lines[i]
                out == response[r].relayed[i]
            IN  (Trimmed(line) # <<>>
                 /\ ~StartsWith(Trimmed(line), DATA_PREFIX)) =>
                    out = <<DATA_PREFIX \o Trimmed(line) \o SSE_TERMINATOR>>

\* the line " x" relayed as `data: x`
C7_Witness ==
    \E r \in Reqs :
        \E i \in 1..Len(response[r].relayed) :
            /\ response[r].lines[i] = <<" ", "x", "\n">>
            /\ response[r].relayed[i] = <<FRAME_X>>
            /\ frames[r][Len(frames[r])] = FRAME_X

\* the webhook URL is unset (empty) or the placeholder
UrlUnsetOrPlaceholder ==
    N8N_WEBHOOK_URL = <<>> \/ N8N_WEBHOOK_URL = PLACEHOLDER_URL

(***************************************************************************)
(* C8: with the webhook URL unset or the placeholder, POST                 *)
(* /chat/completions fails with HTTP 500 and no upstream connection is     *)
(* ever opened for the request.                                            *)
(***************************************************************************)
C8_UnconfiguredIsRejectedBeforeAnyCall ==
    \A r \in Reqs :
        (pc[r] # "idle" /\ UrlUnsetOrPlaceholder) =>
            /\ http_status[r] = 500
            /\ pc[r] = "rejected"
            /\ outbound[r] = <<>>
            /\ ~conn_open[r]
            /\ frames[r] = <<>>

\* a request rejected because the URL is empty
C8_Witness ==
    \E r \in Reqs :
        /\ N8N_WEBHOOK_URL = <<>>
        /\ pc[r] = "rejected"
        /\ http_status[r] = 500

(***************************************************************************)
(* C9 as stated: GET / reports configured=false (status "not_configured")  *)
(* exactly when the URL is unset or the placeholder, that is exactly when  *)
(* POST /chat/completions is rejected with HTTP 500.  The code fails it    *)
(* for the empty URL.                                                      *)
(***************************************************************************)
C9_StatusAgreesWithChat ==
    \A i \in 1..Len(status_reply) :
        /\ status_reply[i].configured = ~UrlUnsetOrPlaceholder
        /\ (status_reply[i].status = "not_configured")
               = ~status_reply[i].configured
        /\ \A r \in Reqs :
               pc[r] # "idle" =>
                   (http_status[r] = 500) = ~status_reply[i].configured

\* a token is configured: set, and not the placeholder
TokenConfigured ==
    N8N_WEBHOOK_AUTH_TOKEN \notin {<<>>, PLACEHOLDER_TOKEN}

(***************************************************************************)
(* C10 as stated: a configured auth token is sent as the header            *)
(* `Authorization: Bearer <token>` of the outbound request, and its value  *)
(* appears in no log line of the request.  The code fails the second half  *)
(* when the webhook's error reply quotes the credential: the reply's body  *)
(* is logged as it came.                                                   *)
(***************************************************************************)
C10_TokenSentAndNeverLogged ==
    \A r \in Reqs :
        TokenConfigured =>
            /\ \A i \in 1..Len(outbound[r]) :
                   /\ "Authorization" \in DOMAIN outbound[r][i].headers
                   /\ outbound[r][i].headers["Authorization"]
                          = BEARER \o N8N_WEBHOOK_AUTH_TOKEN
            /\ \A i \in 1..Len(log[r]) :
                   ~Contains(log[r][i], N8N_WEBHOOK_AUTH_TOKEN)

\* request r is over: rejected, run to its end, stopped when its client
\* left, or its response ended by the server with the generator left behind
Exited(r) == pc[r] \in {"rejected", "closed", "cancelled"} \/ abandoned[r]

(***************************************************************************)
(* C11: the upstream connection of a request is open only while its        *)
(* generator is inside `async with session.post(...)`; once the request is *)
(* over (normal end, HTTP error, transport error or timeout, client gone   *)
(* at any point) its connection is closed.  Refuted: when the client goes  *)
(* away while a chunk is being sent, the server ends the response and      *)
(* leaves the generator suspended at its yield, inside the `async with`    *)
(* blocks: the connection stays open until the generator is finalized.     *)
(***************************************************************************)
C11_ConnectionClosedOnEveryExit ==
    \A r \in Reqs :
        /\ conn_open[r] => pc[r] \in InFlight
        /\ Exited(r) => ~conn_open[r]

FRAME_TIMEOUT ==
    <<"d","a","t","a",":"," ","{","\"","e","r","r","o","r","\"",":"," ","\"",
      "U","n","e","x","p","e","c","t","e","d"," ","e","r","r","o","r",":"," ",
      "\"","}","\n","\n">>

(***************************************************************************)
(* C12: a request whose exchange with the webhook runs into the total      *)
(* timeout (before the reply's headers, while a body is read, between      *)
(* streamed lines) has its connection closed and as its last frame the     *)
(* error frame {"error": "Unexpected error: "}; and no request awaits the  *)
(* webhook for ever: its stream comes to an end.                           *)
(***************************************************************************)
C12_TimeoutEndsStreamWithErrorFrame ==
    /\ [](\A r \in Reqs :
              raised[r] = TimeoutError =>
                  /\ pc[r] \in {"except_sent", "closed", "cancelled"}
                  /\ ~conn_open[r]
                  /\ frames[r] # <<>>
                  /\ IsErrorFrame(LastFrame(r))
                  /\ LastFrame(r) = FRAME_TIMEOUT)
    /\ \A r \in Reqs :
           (pc[r] \in AwaitingUpstream) ~> (pc[r] \in {"closed", "cancelled"})

\* the timeout met between two streamed lines, after `data: x` was relayed
C12_Witness ==
    \E r \in Reqs :
        /\ raised[r] = TimeoutError
        /\ Ended(r)
        /\ frames[r] = <<FRAME_X, FRAME_TIMEOUT>>

\* request r met a failure after the webhook URL test: the webhook's
\* error reply was read, or an exception was raised in the generator
FailedInFlight(r) == response[r].has_text \/ raised[r].cls # "none"

(***************************************************************************)
(* C13: POST /chat/completions answers with an HTTP error status (500)     *)
(* exactly when the webhook URL test rejects the request; every request    *)
(* that passes it is answered 200 text/event-stream, and a failure         *)
(* met afterwards (error reply of the webhook, transport error, timeout,   *)
(* reply that cannot be decoded or parsed or used) leaves the status at    *)
(* 200 and ends the stream with an error frame: no exception leaves the    *)
(* generator.                                                              *)
(***************************************************************************)
C13_OnlyPreflightIsHttpError ==
    \A r \in Reqs :
        /\ http_status[r] \in {0, 200, 500}
        /\ (http_status[r] = 500) = (pc[r] = "rejected")
        /\ pc[r] = "rejected" => UrlUnsetOrPlaceholder
        /\ pc[r] \notin {"idle", "rejected"} =>
               /\ http_status[r] = 200
               /\ media_type[r] = TEXT_EVENT_STREAM
        /\ pc[r] # "escaped"
        /\ FailedInFlight(r) =>
               /\ http_status[r] = 200
               /\ pc[r] \in AtLastYield \cup {"closed", "cancelled"}
               /\ frames[r] # <<>>
               /\ IsErrorFrame(LastFrame(r))

\* a reply that is no JSON, met after the 200 was decided, ends the stream
\* with an error frame
C13_Witness ==
    \E r \in Reqs :
        /\ raised[r] = [cls |-> "Exception", msg |-> CAUSE_BAD_JSON]
        /\ http_status[r] = 200
        /\ media_type[r] = TEXT_EVENT_STREAM
        /\ Ended(r)
        /\ IsErrorFrame(LastFrame(r))

\* a streamed line that holds something besides whitespace
NonBlank(line) == Trimmed(line) # <<>>

\* frame f carries the text of `line`: it begins `data: `, ends with that
\* text and the blank-line terminator, and holds nothing more than a prefix
\* before the text
Reframes(f, line) ==
    /\ StartsWith(f, DATA_PREFIX)
    /\ EndsWith(f, Trimmed(line) \o SSE_TERMINATOR)
    /\ Len(f) <= Len(DATA_PREFIX) + Len(Trimmed(line)) + Len(SSE_TERMINATOR)

(***************************************************************************)
(* C14: in a pass-through relay (stream flag true, status 200, no          *)
(* failure) the frames sent so far are, one for one and in order, the      *)
(* non-blank lines received so far, each re-framed; the translator adds no *)
(* frame, so a frame holds [DONE] only if a line of the webhook did.       *)
(***************************************************************************)
C14_RelayKeepsOrderAndAddsNothing ==
    \A r \in Reqs :
        (PassedThrough(r) /\ pc[r] \in {"streaming", "closed", "cancelled"}) =>
            LET kept == SelectSeq(response[r].lines, NonBlank)
            IN  /\ Len(frames[r]) = Len(kept)
                /\ \A k \in 1..Len(kept) : Reframes(frames[r][k], kept[k])
                /\ (\E k \in 1..Len(frames[r]) :
                        Contains(frames[r][k], DONE_BARE))
                   => \E i \in 1..Len(response[r].lines) :
                          Contains(response[r].lines[i], DONE_BARE)

\* two different lines relayed as two different frames, and the webhook
\* closed the body without [DONE]
C14_Witness ==
    \E r \in Reqs :
        /\ PassedThrough(r)
        /\ Ended(r)
        /\ Len(response[r].lines) = 2
        /\ Len(frames[r]) = 2
        /\ frames[r][1] # frames[r][2]
        /\ frames[r][2] = FRAME_X
        /\ \A k \in 1..2 : ~Contains(frames[r][k], DONE_BARE)

\* the frame with an empty payload
EMPTY_FRAME == DATA_PREFIX \o SSE_TERMINATOR

(***************************************************************************)
(* C15: a streamed line that is empty or holds only whitespace gives no    *)
(* frame, and no frame of any stream is `data: ` followed at once by the   *)
(* terminator.                                                             *)
(***************************************************************************)
C15_BlankLineGivesNoFrame ==
    \A r \in Reqs :
        /\ \A i \in 1..Len(response[r].relayed) :
               ~NonBlank(response[r].lines[i]) =>
                   response[r].relayed[i] = <<>>
        /\ (PassedThrough(r) /\ \A i \in 1..Len(response[r].lines) :
                                    ~NonBlank(response[r].lines[i]))
               => frames[r] = <<>>
        /\ \A k \in 1..Len(frames[r]) : frames[r][k] # EMPTY_FRAME

\* a relay that received the line "\n" and the line " \n" and ended with no
\* frame sent
C15_Witness ==
    \E r \in Reqs :
        /\ PassedThrough(r)
        /\ Ended(r)
        /\ response[r].lines = << <<"\n">>, <<" ", "\n">> >>
        /\ response[r].relayed = << <<>>, <<>> >>
        /\ frames[r] = <<>>

FRAME_REFUSED ==
    <<"d","a","t","a",":"," ","{","\"","e","r","r","o","r","\"",":"," ","\"",
      "C","o","n","n","e","c","t","i","o","n"," ","e","r","r","o","r",":"," ",
      "r","e","f","u","s","e","d","\"","}","\n","\n">>

RECURSIVE Concat(_)
\* the sequences of `ss` joined into one
Concat(ss) == IF ss = <<>> THEN <<>> ELSE Head(ss) \o Concat(Tail(ss))

\* the error frame C16 names for exception e
TransportErrorFrame(e) ==
    ERROR_FRAME_HEAD
    \o (IF e.cls = "ClientError"
        THEN MSG_CONNECTION_ERROR ELSE MSG_UNEXPECTED_ERROR)
    \o JsonEscape(e.msg) \o ERROR_FRAME_TAIL

(***************************************************************************)
(* C16: a request in which aiohttp raised (connection refused, timeout,    *)
(* fault while the body is read or decoded), whether or not frames had     *)
(* been relayed, is at its end, and its frames are the frames relayed      *)
(* before the failure and then one error frame, {"error": "Connection      *)
(* error: <cause>"} for an aiohttp.ClientError and {"error": "Unexpected   *)
(* error: <cause>"} for anything else; the HTTP-error frame and this one   *)
(* never occur together, and in no stream does a frame follow an error     *)
(* frame.                                                                  *)
(***************************************************************************)
C16_TransportFailureIsOneLastErrorFrame ==
    \A r \in Reqs :
        /\ raised[r].cls # "none" =>
               /\ pc[r] \in {"except_sent", "closed", "cancelled"}
               /\ ~response[r].has_text
               /\ frames[r] = Concat(response[r].relayed)
                                  \o <<TransportErrorFrame(raised[r])>>
        /\ \A k \in 1..Len(frames[r]) :
               IsErrorFrame(frames[r][k]) => k = Len(frames[r])

\* the connection failed after `data: x` had been relayed
C16_Witness ==
    \E r \in Reqs :
        /\ raised[r] = [cls |-> "ClientError", msg |-> CAUSE_REFUSED]
        /\ Ended(r)
        /\ frames[r] = <<FRAME_X, FRAME_REFUSED>>

(***************************************************************************)
(* C17 as stated: a 200 reply to a request with stream=false whose body is *)
(* valid JSON of any shape (object with or without `content`/`response`,   *)
(* array, string, number, null) raises nothing: the stream is one          *)
(* completion frame and then `data: [DONE]`, with no error frame.  The     *)
(* code fails it for every reply that is not an object.                    *)
(***************************************************************************)
C17_AnyJsonShapeGivesCompletion ==
    \A r \in Reqs :
        (response[r].has_result /\ Ended(r)) =>
            /\ raised[r].cls = "none"
            /\ Len(frames[r]) = 2
            /\ IsCompletionFrame(frames[r][1])
            /\ frames[r][2] = DONE_FRAME
            /\ \A k \in 1..Len(frames[r]) : ~IsErrorFrame(frames[r][k])

(***************************************************************************)
(* C18: whatever N8N_MAX_RETRIES is, a request sends at most one POST to   *)
(* the webhook: none before its generator starts, and exactly one once the *)
(* webhook has answered or the exchange has failed.                        *)
(***************************************************************************)
C18_OnePostPerRequest ==
    \A r \in Reqs :
        /\ Len(outbound[r]) <= 1
        /\ pc[r] \in {"idle", "rejected", "start"} => outbound[r] = <<>>
        /\ (response[r].status # 0 \/ FailedInFlight(r)) =>
               Len(outbound[r]) = 1

\* three retries configured, the connection refused, the stream ended after
\* the one POST
C18_Witness ==
    \E r \in Reqs :
        /\ N8N_MAX_RETRIES = 3
        /\ raised[r] = [cls |-> "ClientError", msg |-> CAUSE_REFUSED]
        /\ response[r].status = 0
        /\ Ended(r)
        /\ Len(outbound[r]) = 1

\* the keys of the envelope under which the request's other fields travel
RequestValueKeys ==
    {"model", "messages", "stream", "temperature", "max_tokens", "top_p",
     "frequency_penalty", "presence_penalty"}

\* envelope `env` holds the user tag `tag` (an Optional[str]) under some key
CarriesTag(env, tag) ==
    \E k \in DOMAIN env \ RequestValueKeys :
        /\ DOMAIN env[k] = DOMAIN tag
        /\ env[k] = tag

\* envelope `env` holds a verified caller's {id, name, email, role} under
\* `user`
CarriesIdentity(env) ==
    /\ "user" \in DOMAIN env
    /\ DOMAIN env.user = {"id", "name", "email", "role"}
    /\ env.user \in Users

(***************************************************************************)
(* C19 as stated: the envelope POSTed to the webhook holds the request's   *)
(* model, messages (in order), stream flag, temperature, max_tokens,       *)
(* top_p, frequency_penalty and presence_penalty unchanged, holds the      *)
(* request's user tag when it has one, and holds the caller's identity     *)
(* under `user`; the stream flag the generator sees is the request's.  The *)
(* code fails it for a request that carries a user tag: the tag is left    *)
(* out.                                                                    *)
(***************************************************************************)
C19_EnvelopeCarriesRequestAndIdentity ==
    \A r \in Reqs :
        \A i \in 1..Len(outbound[r]) :
            LET env == outbound[r][i].json
                req == chat_request[r]
            IN  /\ env.model = req.model
                /\ env.messages = req.messages
                /\ env.stream = req.stream
                /\ env.temperature = req.temperature
                /\ env.max_tokens = req.max_tokens
                /\ env.top_p = req.top_p
                /\ env.frequency_penalty = req.frequency_penalty
                /\ env.presence_penalty = req.presence_penalty
                /\ CarriesIdentity(env)
                /\ req.user.some => CarriesTag(env, req.user)
                /\ call[r].request_data.stream = req.stream

\* the frames the lines `lines` are relayed as, a line that cannot be
\* decoded giving none
RelayedFrames(lines) ==
    Concat([i \in 1..Len(lines) |->
                IF Decodable(lines[i]) THEN RelayLine(lines[i]) ELSE <<>>])

\* the completion frames a buffered reply of request r can be turned into
OwnCompletions(r) ==
    {SseJson(FormattedResponse(call[r].request_data,
                               CompletionContent(response[r].result),
                               id, created)) :
         id \in UuidHex8, created \in Clock}

\* the frames of request r are those its own call, its own webhook reply
\* and its own failure give to a request that runs alone
OwnFramesOnly(r) ==
    IF raised[r].cls # "none"
    THEN frames[r] = RelayedFrames(response[r].lines)
                         \o <<ExceptFrame(raised[r])>>
    ELSE IF response[r].has_text
    THEN frames[r] = <<ErrorFrame(MSG_WEBHOOK_ERROR \o response[r].error_text)>>
    ELSE IF response[r].has_result
    THEN \E c \in OwnCompletions(r) :
             /\ frames[r] \in {<<c>>, <<c, DONE_FRAME>>}
             /\ pc[r] = "completion_sent" => frames[r] = <<c>>
             /\ pc[r] \in {"done_sent", "closed"} =>
                    frames[r] = <<c, DONE_FRAME>>
    ELSE frames[r] = RelayedFrames(response[r].lines)

\* request r uses the connection of its own call and no other
OwnConnectionOnly(r) ==
    /\ Len(outbound[r]) <= 1
    /\ conn_open[r] => (pc[r] \in InFlight /\ Len(outbound[r]) = 1)
    /\ \A i \in 1..Len(outbound[r]) :
           /\ outbound[r][i].url = call[r].webhook_url
           /\ outbound[r][i].json = call[r].request_data
           /\ outbound[r][i].headers = Headers(call[r].auth_token)

\* this step is one of request r
StepOf(r) ==
    \/ pc'[r] # pc[r]
    \/ response'[r] # response[r]
    \/ abandoned'[r] # abandoned[r]

(***************************************************************************)
(* C20: with two requests served at once, their steps interleaved in any   *)
(* order, each stream holds at every moment exactly the frames its own     *)
(* request gives when it runs alone, each request uses only its own        *)
(* connection, a step adds frames to no stream but that of the request     *)
(* that takes it, and no step changes the settings.                        *)
(***************************************************************************)
C20_ConcurrentRequestsAreIsolated ==
    /\ [](\A r \in Reqs : OwnFramesOnly(r) /\ OwnConnectionOnly(r))
    /\ [][/\ \A r \in Reqs : frames'[r] # frames[r] => StepOf(r)
          /\ \A r, q \in Reqs :
                 (r # q /\ StepOf(r)) =>
                     /\ ~StepOf(q)
                     /\ frames'[q] = frames[q]
                     /\ outbound'[q] = outbound[q]
                     /\ conn_open'[q] = conn_open[q]
          /\ UNCHANGED <<N8N_WEBHOOK_URL, N8N_WEBHOOK_AUTH_TOKEN,
                         N8N_MAX_RETRIES>>]_vars

\* both requests in flight at once, each on its own open connection: one
\* has relayed `data: x`, the other has sent its completion frame
C20_Witness ==
    /\ pc[1] = "streaming"
    /\ frames[1] = <<FRAME_X>>
    /\ pc[2] = "completion_sent"
    /\ Len(frames[2]) = 1
    /\ IsCompletionFrame(frames[2][1])
    /\ conn_open[1]
    /\ conn_open[2]

\* the state of the spec's state machine the translator of request r is in:
\* Idle until the generator has sent its POST, Failed once the reply is
\* known to be an HTTP error or an except clause has run, Buffering until
\* the generator is resumed after [DONE], Closed when the generator has
\* ended or was closed
Phase(r) ==
    CASE pc[r] \in {"idle", "rejected", "start"} -> "Idle"
      [] pc[r] = "connecting" -> "Connecting"
      [] pc[r] = "streaming" -> "Streaming"
      [] pc[r] \in {"buffering", "completion_sent", "done_sent"} -> "Buffering"
      [] pc[r] \in {"error_text", "http_error_sent", "except_sent"} -> "Failed"
      [] pc[r] \in {"closed", "cancelled"} -> "Closed"

\* the moves of Idle -> Connecting -> (Streaming | Buffering | Failed) ->
\* Closed, a Streaming or Buffering translator going on to Failed or Closed
PhaseMoves ==
    {<<"Idle", "Connecting">>,
     <<"Connecting", "Streaming">>, <<"Connecting", "Buffering">>,
     <<"Connecting", "Failed">>,
     <<"Streaming", "Failed">>, <<"Buffering", "Failed">>,
     <<"Streaming", "Closed">>, <<"Buffering", "Closed">>,
     <<"Failed", "Closed">>}

\* this step of request r's translator is a move of the state machine
MovesAlongMachine(r) ==
    \/ Phase(r)' = Phase(r)
    \/ <<Phase(r), Phase(r)'>> \in PhaseMoves

\* the generator of request r exists and has not ended
Running(r) == pc[r] \in {"start", "except_sent"} \cup InFlight

(***************************************************************************)
(* C21: every step of a translator that is not the closing of a generator  *)
(* whose client has left is a move of Idle -> Connecting -> (Streaming |   *)
(* Buffering | Failed) -> Closed (Connecting is left for one of Streaming, *)
(* Buffering, Failed; Streaming and Buffering are left for Failed or       *)
(* Closed); a Closed translator takes no step and gets no frame; and every *)
(* translator that was created is Closed in the end, given that the        *)
(* timeout fires, that the server goes on iterating the generator while    *)
(* the client is there, and that a generator left behind is finalized.     *)
(***************************************************************************)
C21_TranslatorFollowsStateMachine ==
    /\ [][\A r \in Reqs :
              /\ pc'[r] # "cancelled" => MovesAlongMachine(r)
              /\ Phase(r) = "Closed" =>
                     /\ pc'[r] = pc[r]
                     /\ frames'[r] = frames[r]
                     /\ outbound'[r] = outbound[r]]_vars
    /\ \A r \in Reqs : Running(r) ~> (Phase(r) = "Closed")

\* a translator that went Idle, Connecting, Buffering, Closed: its stream is
\* the completion frame and [DONE]
C21_Witness ==
    \E r \in Reqs :
        /\ Phase(r) = "Closed"
        /\ pc[r] = "closed"
        /\ response[r].has_result
        /\ raised[r].cls = "none"
        /\ Len(frames[r]) = 2
        /\ frames[r][2] = DONE_FRAME

\* the characters that end a line of an event stream
LineBreaks == {"\n", "\r"}

\* what chunk f holds between `data: ` and its last two characters
Payload(f) == SubSeq(f, Len(DATA_PREFIX) + 1, Len(f) - Len(SSE_TERMINATOR))

\* chunk f is one SSE frame: `data: `, a payload of one line, and one
\* blank-line terminator
IsOneSseFrame(f) ==
    /\ Len(f) >= Len(DATA_PREFIX) + Len(SSE_TERMINATOR)
    /\ StartsWith(f, DATA_PREFIX)
    /\ EndsWith(f, SSE_TERMINATOR)
    /\ \A i \in 1..Len(Payload(f)) : Payload(f)[i] \notin LineBreaks

(***************************************************************************)
(* C22 as stated: every chunk the generator yields (relayed line, wrapped  *)
(* line, completion, [DONE], error frame) begins with `data: `, ends with  *)
(* one blank-line terminator and has no line break inside its payload.     *)
(* The code fails it for a streamed line with a carriage return inside.    *)
(***************************************************************************)
C22_EveryChunkIsOneSseFrame ==
    \A r \in Reqs :
        \A k \in 1..Len(frames[r]) : IsOneSseFrame(frames[r][k])

=============================================================================
